---- MODULE Spec2Model ----
(***************************************************************************)
(* Model of the holiday dataset updater (update_holidays.py): the paged    *)
(* fetch from the calendar source, the year filter, the per-date           *)
(* de-duplication, the merge into the stored dataset and the main loop     *)
(* over the country files.                                                 *)
(*                                                                         *)
(* Strings that the code slices or compares are sequences of tokens:       *)
(*   "YYYY-MM-DD"                = <<year, monthday>>                      *)
(*   "YYYY-MM-DDTHH:MM:SS+ZZ:ZZ" = <<year, monthday, time>>                *)
(*   "YYYY-MM-DDT00:00:00.000Z"  = <<year, monthday, MidnightSuffix>>      *)
(*   ""                          = <<>>                                    *)
(* so that s[:4] is the first token, s[:10] the first two, and Python's    *)
(* string order is the lexicographic order of the token sequences.         *)
(***************************************************************************)
EXTENDS Integers, Sequences, FiniteSets, TLC

VARIABLES
  files,             \* the json directory: key -> [kind, data]
  args,              \* the parsed command line of the current run
  country_codes,     \* main: the sorted keys found in the directory
  idx,               \* main: position of the for loop in country_codes
  pc,                \* where the program is
  holidays,          \* fetch_holidays_from_gcal: entries appended so far
  page_no,           \* fetch_holidays_from_gcal: page requests issued
  page_token,        \* fetch_holidays_from_gcal: the continuation token held
  events,            \* the raw items the source has returned, in fetch order
  new_holidays,      \* the list fetch_holidays_from_gcal returned
  existing_holidays, \* update_country_holidays / merge_holidays: existing
  final_holidays,    \* update_country_holidays / merge_holidays: result
  success_count,     \* main
  error_count,       \* main
  exit_status,       \* main: the exit status, -1 while the run goes on
  runs,              \* number of runs of main started
  last_key,          \* history: key of the last finished loop iteration
  before,            \* history: that key's file when its iteration began
  outcome,           \* history: how that iteration ended
  backup_dir,        \* validator: the copies backup_json_files made
  before_snapshot,   \* validator: key -> entries loaded before the update
  after_snapshot,    \* validator: key -> entries loaded after the update
  result             \* validator: what compare_snapshots returned

vars == <<files, args, country_codes, idx, pc, holidays, page_no, page_token,
          events, new_holidays, existing_holidays, final_holidays, success_count,
          error_count, exit_status, runs, last_key, before, outcome, backup_dir,
          before_snapshot, after_snapshot, result>>

(***************************************************************************)
(* Bounds of the model.                                                    *)
(***************************************************************************)
MaxExisting == 3     \* merge inputs: longest existing list
MaxIncoming == 2     \* merge inputs: longest incoming list
MaxEvents == 4       \* fetch inputs: most raw items over all pages
MaxPages == 2        \* fetch inputs: most page requests of one fetch
MaxRunEvents == 2    \* pipeline: most raw items of one key's fetch
MaxRuns == 1         \* pipeline: runs of main after the first

(***************************************************************************)
(* Strings.                                                                *)
(***************************************************************************)
MidnightSuffix == 0   \* the "T00:00:00.000Z" the code appends

Min(a, b) == IF a <= b THEN a ELSE b

\* s[:n] of Python, n counted in tokens
Prefix(s, n) == SubSeq(s, 1, Min(n, Len(s)))

\* Python's < on strings
RECURSIVE StrLess(_, _)
StrLess(a, b) ==
  IF b = <<>> THEN FALSE
  ELSE IF a = <<>> THEN TRUE
  ELSE IF a[1] # b[1] THEN a[1] < b[1]
  ELSE StrLess(Tail(a), Tail(b))

StrLeq(a, b) == a = b \/ StrLess(a, b)

\* int(s[:4]) of a date string
YearOf(s) == s[1]

Holiday(d, n) == [date |-> d, name |-> n]

HolidayKey(h) == <<h.date, h.name>>

(***************************************************************************)
(* list.sort(key=lambda h: h["date"]): a stable sort.                      *)
(***************************************************************************)
RECURSIVE InsertByDate(_, _)
InsertByDate(sorted, h) ==
  IF sorted = <<>> THEN <<h>>
  ELSE LET last == sorted[Len(sorted)]
       IN  IF StrLeq(last.date, h.date)
           THEN Append(sorted, h)
           ELSE Append(InsertByDate(SubSeq(sorted, 1, Len(sorted) - 1), h), last)

RECURSIVE SortPrefix(_, _)
SortPrefix(s, n) ==
  IF n = 0 THEN <<>> ELSE InsertByDate(SortPrefix(s, n - 1), s[n])

\* a sort that is not stable: an entry goes before the entries of its date
RECURSIVE InsertByDateUnstable(_, _)
InsertByDateUnstable(sorted, h) ==
  IF sorted = <<>> THEN <<h>>
  ELSE LET last == sorted[Len(sorted)]
       IN  IF StrLess(last.date, h.date)
           THEN Append(sorted, h)
           ELSE Append(InsertByDateUnstable(SubSeq(sorted, 1, Len(sorted) - 1), h), last)

RECURSIVE SortPrefixUnstable(_, _)
SortPrefixUnstable(s, n) ==
  IF n = 0 THEN <<>>
  ELSE InsertByDateUnstable(SortPrefixUnstable(s, n - 1), s[n])

SortByDateUnstable(s) == SortPrefixUnstable(s, Len(s))

SortByDate(s) == SortPrefix(s, Len(s))

(***************************************************************************)
(* merge_holidays.                                                         *)
(***************************************************************************)
ExistingKeys(existing) == {HolidayKey(existing[i]) : i \in 1..Len(existing)}

\* the for loop of merge_holidays, from new_holidays[i] on
RECURSIVE MergeLoop(_, _, _, _)
MergeLoop(merged, keys, new, i) ==
  IF i > Len(new) THEN merged
  ELSE IF HolidayKey(new[i]) \notin keys
       THEN MergeLoop(Append(merged, new[i]), keys \cup {HolidayKey(new[i])}, new, i + 1)
       ELSE MergeLoop(merged, keys, new, i + 1)

\* merge without the duplicate test: every incoming entry is appended
merge_holidays_appending(existing, new) == SortByDate(existing \o new)

\* merge that starts from an empty list instead of existing.copy()
merge_holidays_dropping(existing, new) ==
  SortByDate(MergeLoop(<<>>, ExistingKeys(existing), new, 1))

\* merge without the final sort
merge_holidays_unsorted(existing, new) ==
  MergeLoop(existing, ExistingKeys(existing), new, 1)

\* merge whose sort is not stable
merge_holidays_unstable(existing, new) ==
  SortByDateUnstable(MergeLoop(existing, ExistingKeys(existing), new, 1))

merge_holidays(existing, new) ==
  SortByDate(MergeLoop(existing, ExistingKeys(existing), new, 1))

(***************************************************************************)
(* fetch_holidays_from_gcal.  A raw item of the source is                  *)
(* [date, dateTime, summary]: start.date and start.dateTime, <<>> when the *)
(* item has none, and the summary, NoSummary when the item has none.       *)
(***************************************************************************)
NoSummary == "<no summary>"

RawItem(d, dt, s) == [date |-> d, dateTime |-> dt, summary |-> s]

\* start.get("date") or start.get("dateTime", "")[:10]
DateStr(item) == IF item.date # <<>> THEN item.date ELSE Prefix(item.dateTime, 2)

\* item.get("summary", "")
SummaryOf(item) == IF item.summary = NoSummary THEN "" ELSE item.summary

\* f"{date_str}T00:00:00.000Z"
IsoDate(date_str) == date_str \o <<MidnightSuffix>>

\* the for loop over one page's items, appending to holidays
RECURSIVE AppendItems(_, _)
AppendItems(hs, items) ==
  IF items = <<>> THEN hs
  ELSE LET item == Head(items)
       IN  AppendItems(IF DateStr(item) # <<>>
                       THEN Append(hs, Holiday(IsoDate(DateStr(item)), SummaryOf(item)))
                       ELSE hs,
                       Tail(items))

\* the filter with range(start_year, end_year): the last year left out
FilterYearsExclusive(hs, start_year, end_year) ==
  SelectSeq(hs, LAMBDA h : h.date # <<>> /\ YearOf(h.date) \in start_year..(end_year - 1))

\* year_set = set(range(start_year, end_year + 1)); the list comprehension
FilterYears(hs, start_year, end_year) ==
  SelectSeq(hs, LAMBDA h : h.date # <<>> /\ YearOf(h.date) \in start_year..end_year)

\* unique_holidays[holiday["date"]] = holiday on an insertion-ordered dict
DictPut(d, h) ==
  IF \E i \in 1..Len(d) : d[i].date = h.date
  THEN [i \in 1..Len(d) |-> IF d[i].date = h.date THEN h ELSE d[i]]
  ELSE Append(d, h)

\* a dict that keeps the first value of a key
DictPutFirstWins(d, h) ==
  IF \E i \in 1..Len(d) : d[i].date = h.date THEN d ELSE Append(d, h)

RECURSIVE DedupePrefixFirstWins(_, _)
DedupePrefixFirstWins(hs, n) ==
  IF n = 0 THEN <<>> ELSE DictPutFirstWins(DedupePrefixFirstWins(hs, n - 1), hs[n])

DedupeByDateFirstWins(hs) == DedupePrefixFirstWins(hs, Len(hs))

RECURSIVE DedupePrefix(_, _)
DedupePrefix(hs, n) ==
  IF n = 0 THEN <<>> ELSE DictPut(DedupePrefix(hs, n - 1), hs[n])

\* list(unique_holidays.values())
DedupeByDate(hs) == DedupePrefix(hs, Len(hs))

\* what fetch_holidays_from_gcal returns once the last page is in
FetchResult(hs, start_year, end_year) ==
  DedupeByDate(FilterYears(hs, start_year, end_year))

(***************************************************************************)
(* The dataset files.                                                      *)
(***************************************************************************)
Absent == [kind |-> "absent", data |-> <<>>]

\* a file whose content json.load cannot parse, or parses to a non-list
Garbage == [kind |-> "garbage", data |-> <<>>]

StoredList(hs) == [kind |-> "list", data |-> hs]

\* os.path.exists(file_path)
Exists(f) == f.kind # "absent"

load_existing_holidays(f) == IF f.kind = "list" THEN f.data ELSE <<>>

\* h["date"] and h["name"] are there to be read
IsEntry(h) == {"date", "name"} \subseteq DOMAIN h

\* merge_holidays: the comprehension over existing raises on an element
\* without "date" or "name"
MergeRaises(existing) == \E i \in 1..Len(existing) : ~IsEntry(existing[i])

\* the file holds a list of {date, name} entries
WellFormed(f) == f.kind = "list" /\ ~MergeRaises(f.data)

save_holidays_to_json(hs) == StoredList(hs)

\* the keys of the model in sorted order; ZZ has no calendar
KeyOrder == <<"JP", "US", "ZZ">>

Keys == {KeyOrder[i] : i \in 1..Len(KeyOrder)}

CALENDAR_MAPPING == {"JP", "US"}

\* sorted codes of the *.json files of the directory
get_country_codes_from_json_dir(fs) == SelectSeq(KeyOrder, LAMBDA k : Exists(fs[k]))

(***************************************************************************)
(* Values shared by the specifications.                                    *)
(***************************************************************************)
SeqsUpTo(S, n) == UNION {[1..k -> S] : k \in 0..n}

NoArgs == [start_year |-> 0, end_year |-> 0, recreate |-> FALSE, force |-> FALSE]

NoFiles == [k \in Keys |-> Absent]

\* page_token = None
NoToken == ""

\* data.get("nextPageToken") of a page that has one: the source never hands
\* back the token it was sent
NextPageToken(t) == IF t = "t1" THEN "t2" ELSE "t1"

\* result before compare_snapshots has returned
NoResult == [passed |-> FALSE, missing |-> {}, deleted |-> {}, modified |-> {}, new |-> {}]

\* the variables of the validator, at rest
ValidatorIdle ==
  /\ backup_dir = <<>>
  /\ before_snapshot = <<>>
  /\ after_snapshot = <<>>
  /\ result = NoResult

ValidatorUnchanged == UNCHANGED <<backup_dir, before_snapshot, after_snapshot, result>>

\* the variables of main and its history, at rest
MainIdle ==
  /\ files = NoFiles
  /\ country_codes = <<>>
  /\ idx = 0
  /\ success_count = 0
  /\ error_count = 0
  /\ runs = 0
  /\ last_key = ""
  /\ before = Absent
  /\ outcome = "none"
  /\ exit_status = -1
  /\ ValidatorIdle

MainUnchanged ==
  /\ UNCHANGED <<files, country_codes, idx, success_count, error_count, runs,
                 last_key, before, outcome, exit_status>>
  /\ ValidatorUnchanged

(***************************************************************************)
(* SpecMerge: merge_holidays applied to bounded existing and incoming      *)
(* lists, then applied again to its own output with the same incoming.     *)
(***************************************************************************)
NewYear == Holiday(<<2025, 101, MidnightSuffix>>, "New Year")

FoundationDay == Holiday(<<2025, 211, MidnightSuffix>>, "Foundation Day")

MergeDates == {<<2024, 1231, MidnightSuffix>>, <<2025, 101, MidnightSuffix>>,
               <<2025, 211, MidnightSuffix>>}

MergeNames == {"New Year", "Foundation Day"}

MergeEntries == {Holiday(d, n) : d \in MergeDates, n \in MergeNames}

MergeInit ==
  /\ MainIdle
  /\ args = NoArgs
  /\ pc = "merge"
  /\ holidays = <<>>
  /\ page_no = 0
  /\ page_token = NoToken
  /\ events = <<>>
  /\ existing_holidays \in SeqsUpTo(MergeEntries, MaxExisting)
  /\ new_holidays \in SeqsUpTo(MergeEntries, MaxIncoming)
  /\ final_holidays = <<>>

\* final_holidays = merge_holidays(existing_holidays, new_holidays)
MergeCall ==
  /\ pc = "merge"
  /\ final_holidays' = merge_holidays(existing_holidays, new_holidays)
  /\ pc' = "merged"
  /\ UNCHANGED <<args, holidays, page_no, page_token, events, new_holidays,
                 existing_holidays>>
  /\ MainUnchanged

\* the output is the next call's existing, with the same incoming
MergeAgain ==
  /\ pc = "merged"
  /\ existing_holidays' = final_holidays
  /\ final_holidays' = merge_holidays(final_holidays, new_holidays)
  /\ pc' = "remerged"
  /\ UNCHANGED <<args, holidays, page_no, page_token, events, new_holidays>>
  /\ MainUnchanged

MergeNext == MergeCall \/ MergeAgain

SpecMerge == MergeInit /\ [][MergeNext]_vars

Count(s, e) == Cardinality({i \in 1..Len(s) : s[i] = e})

IsSortedByDate(s) ==
  \A i \in 1..Len(s) : \A j \in i..Len(s) : StrLeq(s[i].date, s[j].date)

WithDate(s, d) == SelectSeq(s, LAMBDA h : h.date = d)

\* out is the stable sort by date of in
IsStableSortOf(out, in) ==
  /\ Len(out) = Len(in)
  /\ IsSortedByDate(out)
  /\ \A i \in 1..Len(in) : WithDate(out, in[i].date) = WithDate(in, in[i].date)
  /\ \A i \in 1..Len(out) : \E j \in 1..Len(in) : in[j] = out[i]

\* the positions of incoming whose key is neither in existing nor earlier in incoming
FreshPositions(existing, new) ==
  {j \in 1..Len(new) :
     /\ \A i \in 1..Len(existing) : HolidayKey(existing[i]) # HolidayKey(new[j])
     /\ \A k \in 1..(j - 1) : HolidayKey(new[k]) # HolidayKey(new[j])}

\* the entries of incoming at those positions, in order
FreshEntries(existing, new) ==
  LET F == FreshPositions(existing, new)
  IN  [i \in 1..Cardinality(F) |->
         new[CHOOSE j \in F : Cardinality({k \in F : k <= j}) = i]]

\* C1: every element of existing is in merge_holidays(existing, incoming)
\* with the same date and name, as many times as in existing.
C1_MergeKeepsExisting ==
  pc \in {"merged", "remerged"} =>
    \A i \in 1..Len(existing_holidays) :
      Count(final_holidays, existing_holidays[i])
        = Count(existing_holidays, existing_holidays[i])

C1_Witness ==
  /\ pc = "merged"
  /\ Len(existing_holidays) = 3
  /\ existing_holidays[1] = existing_holidays[3]
  /\ existing_holidays[1] # existing_holidays[2]
  /\ StrLess(existing_holidays[2].date, existing_holidays[1].date)
  /\ Len(final_holidays) > Len(existing_holidays)
  /\ final_holidays # existing_holidays \o new_holidays

\* C5: merging the same incoming into the output of a merge gives that
\* output again, as a sequence.
C5_MergeIdempotent ==
  pc = "remerged" => final_holidays = existing_holidays

C5_Witness ==
  /\ pc = "remerged"
  /\ Len(new_holidays) = 2
  /\ new_holidays[1] = new_holidays[2]
  /\ Count(existing_holidays, new_holidays[1]) = 1
  /\ Len(final_holidays) >= 3
  /\ final_holidays = existing_holidays

\* C6: the output of merge_holidays is non-decreasing by date, also when
\* existing is not sorted.
C6_MergeSorted ==
  pc \in {"merged", "remerged"} => IsSortedByDate(final_holidays)

C6_Witness ==
  /\ pc = "merged"
  /\ ~IsSortedByDate(existing_holidays)
  /\ ~IsSortedByDate(new_holidays)
  /\ Len(final_holidays) = 5
  /\ IsSortedByDate(final_holidays)

\* C7: merge_holidays(existing, incoming) is the stable sort by date of
\* existing followed by the incoming entries, in order, whose (date, name)
\* is neither in existing nor in an earlier incoming entry; New Year merged
\* with New Year and Foundation Day gives those two entries.
C7_MergeIsStableSortOfAppend ==
  pc = "merged" =>
    /\ IsStableSortOf(final_holidays,
                      existing_holidays \o FreshEntries(existing_holidays, new_holidays))
    /\ (existing_holidays = <<NewYear>> /\ new_holidays = <<NewYear, FoundationDay>>)
         => final_holidays = <<NewYear, FoundationDay>>

C7_Witness ==
  /\ pc = "merged"
  /\ existing_holidays = <<NewYear>>
  /\ new_holidays = <<NewYear, FoundationDay>>
  /\ final_holidays = <<NewYear, FoundationDay>>

(***************************************************************************)
(* SpecFetch: fetch_holidays_from_gcal against a source that answers each  *)
(* page request with items and a continuation token, with items and no     *)
(* token, or with a failure.                                               *)
(***************************************************************************)
FetchYears == {2024, 2025, 2026, 2027}

FetchWindows == {<<2025, 2025>>, <<2025, 2026>>}

\* all-day items, an item with a dateTime and no summary, an item with no start
FetchItems ==
  {RawItem(<<y, 101>>, <<>>, s) : y \in FetchYears, s \in {"", "New Year"}}
    \cup {RawItem(<<>>, <<2026, 101, 930>>, NoSummary),
          RawItem(<<>>, <<>>, "New Year")}

FetchInit ==
  /\ MainIdle
  /\ \E w \in FetchWindows :
       args = [start_year |-> w[1], end_year |-> w[2], recreate |-> FALSE, force |-> FALSE]
  /\ pc = "fetch"
  /\ holidays = <<>>
  /\ page_no = 0
  /\ page_token = NoToken
  /\ events = <<>>
  /\ new_holidays = <<>>
  /\ existing_holidays = <<>>
  /\ final_holidays = <<>>

\* data = http_get(url) returned: the for loop over data["items"]
ReceivePage(items) ==
  /\ holidays' = AppendItems(holidays, items)
  /\ events' = events \o items
  /\ page_no' = page_no + 1

\* a page with a nextPageToken: the while loop goes round
PageMore(Items, cap) ==
  /\ pc = "fetch"
  /\ page_no + 1 < MaxPages
  /\ \E items \in SeqsUpTo(Items, cap - Len(events)) : ReceivePage(items)
  /\ page_token' = NextPageToken(page_token)
  /\ pc' = "fetch"
  /\ UNCHANGED <<args, new_holidays, existing_holidays, final_holidays>>
  /\ MainUnchanged

\* a page without a nextPageToken: break, filter, de-duplicate, return
PageLast(Items, cap) ==
  /\ pc = "fetch"
  /\ page_no < MaxPages
  /\ \E items \in SeqsUpTo(Items, cap - Len(events)) : ReceivePage(items)
  /\ page_token' = NoToken
  /\ new_holidays' = FetchResult(holidays', args.start_year, args.end_year)
  /\ pc' = "returned"
  /\ UNCHANGED <<args, existing_holidays, final_holidays>>
  /\ MainUnchanged

FetchPageMore == PageMore(FetchItems, MaxEvents)

FetchPageLast == PageLast(FetchItems, MaxEvents)

\* http_get raises RuntimeError
FetchRaise ==
  /\ pc = "fetch"
  /\ page_no < MaxPages
  /\ page_no' = page_no + 1
  /\ pc' = "raised"
  /\ UNCHANGED <<args, holidays, page_token, events, new_holidays,
                 existing_holidays, final_holidays>>
  /\ MainUnchanged

FetchNext == FetchPageMore \/ FetchPageLast \/ FetchRaise

SpecFetch == FetchInit /\ [][FetchNext]_vars

\* the items of the fetch that have a date
Dated == {j \in 1..Len(events) : DateStr(events[j]) # <<>>}

\* the items whose date is in the requested years
Retained ==
  {j \in Dated : /\ args.start_year <= YearOf(DateStr(events[j]))
                 /\ YearOf(DateStr(events[j])) <= args.end_year}

Max(S) == CHOOSE x \in S : \A y \in S : y <= x

\* C8: the returned list has at most one entry per date, and the entry of a
\* date is the retained item of that date that comes last in fetch order,
\* whatever its name.
C8_DedupLastWins ==
  pc = "returned" =>
    /\ \A i, k \in 1..Len(new_holidays) :
         new_holidays[i].date = new_holidays[k].date => i = k
    /\ \A i \in 1..Len(new_holidays) :
         LET J == {j \in Retained : IsoDate(DateStr(events[j])) = new_holidays[i].date}
         IN  /\ J # {}
             /\ new_holidays[i].name = SummaryOf(events[Max(J)])

C8_Witness ==
  /\ pc = "returned"
  /\ page_no = 2
  /\ Len(events) = 3
  /\ Dated = {1, 2, 3}
  /\ Retained = {1, 2, 3}
  /\ DateStr(events[1]) = DateStr(events[3])
  /\ DateStr(events[1]) # DateStr(events[2])
  /\ events[1].summary = "New Year"
  /\ events[3].summary = ""
  /\ Len(new_holidays) = 2
  /\ new_holidays[1].name = ""

\* C9: an item with a date in year Y is retained iff
\* start_year <= Y <= end_year.
C9_WindowFilter ==
  pc = "returned" =>
    \A j \in Dated :
      (\E i \in 1..Len(new_holidays) : new_holidays[i].date = IsoDate(DateStr(events[j])))
        <=> (j \in Retained)

C9_Witness ==
  /\ pc = "returned"
  /\ args.start_year < args.end_year
  /\ {YearOf(DateStr(events[j])) : j \in Dated}
       = {args.start_year - 1, args.start_year, args.end_year, args.end_year + 1}
  /\ {YearOf(h.date) : h \in {new_holidays[i] : i \in 1..Len(new_holidays)}}
       = {args.start_year, args.end_year}

(***************************************************************************)
(* Spec: main over the country files of the directory, run after run.      *)
(***************************************************************************)
OldYearsEve == Holiday(<<2024, 1231, MidnightSuffix>>, "New Year")

\* a list element that is a JSON object but not an entry: it has no "name"
NotAnEntry == [date |-> <<2025, 101, MidnightSuffix>>]

\* what JP.json, US.json and ZZ.json may hold when the first run starts
InitialFiles ==
  [JP : {Absent, Garbage, StoredList(<<>>), StoredList(<<NewYear>>),
         StoredList(<<FoundationDay, OldYearsEve>>), StoredList(<<NotAnEntry>>)},
   US : {Absent, StoredList(<<NewYear>>)},
   ZZ : {Absent, StoredList(<<>>)}]

\* --start-year 2025 --end-year 2026 with and without --recreate and --force
ArgChoices ==
  [start_year : {2025}, end_year : {2026}, recreate : BOOLEAN, force : BOOLEAN]

\* the items the source returns in a run
RunItems ==
  {RawItem(<<2025, 101>>, <<>>, "New Year"), RawItem(<<2025, 101>>, <<>>, ""),
   RawItem(<<2026, 101>>, <<>>, "New Year"), RawItem(<<2027, 101>>, <<>>, "New Year")}

Init ==
  /\ files \in InitialFiles
  /\ args \in ArgChoices
  /\ pc = "start"
  /\ country_codes = <<>>
  /\ idx = 0
  /\ holidays = <<>>
  /\ page_no = 0
  /\ page_token = NoToken
  /\ events = <<>>
  /\ new_holidays = <<>>
  /\ existing_holidays = <<>>
  /\ final_holidays = <<>>
  /\ success_count = 0
  /\ error_count = 0
  /\ runs = 0
  /\ last_key = ""
  /\ before = Absent
  /\ outcome = "none"
  /\ exit_status = -1
  /\ ValidatorIdle

FetchLocalsReset ==
  /\ holidays' = <<>>
  /\ page_no' = 0
  /\ page_token' = NoToken
  /\ events' = <<>>

\* main up to the for loop: the codes of the directory, exit(1) if none
MainStart ==
  /\ pc = "start"
  /\ country_codes' = get_country_codes_from_json_dir(files)
  /\ pc' = IF country_codes' = <<>> THEN "done" ELSE "loop"
  /\ exit_status' = IF country_codes' = <<>> THEN 1 ELSE -1
  /\ idx' = 1
  /\ success_count' = 0
  /\ error_count' = 0
  /\ UNCHANGED <<files, args, holidays, page_no, page_token, events, new_holidays,
                 existing_holidays, final_holidays, runs, last_key, before, outcome>>
  /\ ValidatorUnchanged

\* main: if args.recreate and args.force: if os.path.exists: os.remove
RemoveOnForce(a, f) == IF a.recreate /\ a.force /\ Exists(f) THEN Absent ELSE f

\* the existence check left out
RecreateConflictIgnored(a, f) == FALSE

\* update_country_holidays: if recreate and os.path.exists(file_path): raise
RecreateConflict(a, f) == a.recreate /\ Exists(f)

\* update_country_holidays once new_holidays is not empty: the file written
UpdatedFile(a, f, new) ==
  IF a.recreate
  THEN save_holidays_to_json(new)
  ELSE save_holidays_to_json(merge_holidays(load_existing_holidays(f), new))

\* update_country_holidays: file_path = os.path.join(json_dir, f"{country_code}.json")
file_path_shared(country_code) == "JP"

file_path(country_code) == country_code

\* one round of the for loop up to the first page request, or to its end
\* when the key is unsupported or its file is in the way of --recreate
BeginKey ==
  /\ pc = "loop"
  /\ idx <= Len(country_codes)
  /\ LET k == country_codes[idx]
         f == RemoveOnForce(args, files[file_path(k)])
     IN  /\ files' = [files EXCEPT ![file_path(k)] = f]
         /\ last_key' = k
         /\ before' = files[file_path(k)]
         /\ FetchLocalsReset
         /\ IF k \notin CALENDAR_MAPPING
            THEN /\ outcome' = "unsupported"
                 /\ error_count' = error_count + 1
                 /\ idx' = idx + 1
                 /\ pc' = "loop"
            ELSE IF RecreateConflict(args, f)
            THEN /\ outcome' = "rejected"
                 /\ error_count' = error_count + 1
                 /\ idx' = idx + 1
                 /\ pc' = "loop"
            ELSE /\ outcome' = "fetching"
                 /\ UNCHANGED <<error_count, idx>>
                 /\ pc' = "fetch"
  /\ new_holidays' = <<>>
  /\ existing_holidays' = <<>>
  /\ final_holidays' = <<>>
  /\ UNCHANGED <<args, country_codes, success_count, runs, exit_status>>
  /\ ValidatorUnchanged

\* a page with a nextPageToken
RunPageMore ==
  /\ pc = "fetch"
  /\ page_no + 1 < MaxPages
  /\ \E items \in SeqsUpTo(RunItems, MaxRunEvents - Len(events)) : ReceivePage(items)
  /\ page_token' = NextPageToken(page_token)
  /\ pc' = "fetch"
  /\ UNCHANGED <<files, args, country_codes, idx, new_holidays, existing_holidays,
                 final_holidays, success_count, error_count, runs, last_key,
                 before, outcome, exit_status>>
  /\ ValidatorUnchanged

\* the last page: the fetch returns and update_country_holidays runs to its end
RunPageLast ==
  /\ pc = "fetch"
  /\ page_no < MaxPages
  /\ \E items \in SeqsUpTo(RunItems, MaxRunEvents - Len(events)) :
       new_holidays' = FetchResult(AppendItems(holidays, items),
                                   args.start_year, args.end_year)
  /\ page_no' = page_no + 1
  /\ page_token' = NoToken
  /\ holidays' = <<>>
  /\ events' = <<>>
  /\ LET k == file_path(country_codes[idx])
         new == new_holidays'
     IN  /\ k \in Keys
         /\ IF new = <<>>
            THEN /\ outcome' = "empty"
                 /\ UNCHANGED <<files, existing_holidays, final_holidays>>
            ELSE IF ~args.recreate /\ MergeRaises(load_existing_holidays(files[k]))
            THEN /\ outcome' = "merge_failed"
                 /\ existing_holidays' = load_existing_holidays(files[k])
                 /\ UNCHANGED <<files, final_holidays>>
            ELSE /\ outcome' = "saved"
                 /\ existing_holidays' =
                      IF args.recreate THEN existing_holidays
                      ELSE load_existing_holidays(files[k])
                 /\ files' = [files EXCEPT ![k] = UpdatedFile(args, files[k], new)]
                 /\ final_holidays' = files'[k].data
  /\ IF outcome' = "merge_failed"
     THEN error_count' = error_count + 1 /\ UNCHANGED success_count
     ELSE success_count' = success_count + 1 /\ UNCHANGED error_count
  /\ idx' = idx + 1
  /\ pc' = "loop"
  /\ UNCHANGED <<args, country_codes, runs, last_key, before, exit_status>>
  /\ ValidatorUnchanged

\* http_get raises and nothing catches it: the script ends there
RunFetchRaiseAborting ==
  /\ pc = "fetch"
  /\ page_no < MaxPages
  /\ page_no' = page_no + 1
  /\ outcome' = "fetch_failed"
  /\ exit_status' = 1
  /\ pc' = "done"
  /\ holidays' = <<>>
  /\ events' = <<>>
  /\ UNCHANGED <<files, args, country_codes, idx, page_token, new_holidays,
                 existing_holidays, final_holidays, success_count, error_count,
                 runs, last_key, before>>
  /\ ValidatorUnchanged

\* http_get raises: update_country_holidays catches it and returns False
RunFetchRaise ==
  /\ pc = "fetch"
  /\ page_no < MaxPages
  /\ page_no' = page_no + 1
  /\ outcome' = "fetch_failed"
  /\ error_count' = error_count + 1
  /\ idx' = idx + 1
  /\ pc' = "loop"
  /\ holidays' = <<>>
  /\ events' = <<>>
  /\ UNCHANGED <<files, args, country_codes, page_token, new_holidays,
                 existing_holidays, final_holidays, success_count, runs,
                 last_key, before, exit_status>>
  /\ ValidatorUnchanged

\* the for loop is over: the summary line and the exit status
MainEnd ==
  /\ pc = "loop"
  /\ idx > Len(country_codes)
  /\ pc' = "done"
  /\ exit_status' = IF error_count > 0 THEN 1 ELSE 0
  /\ UNCHANGED <<files, args, country_codes, idx, holidays, page_no, page_token,
                 events, new_holidays, existing_holidays, final_holidays,
                 success_count, error_count, runs, last_key, before, outcome>>
  /\ ValidatorUnchanged

\* the script is started again, with any of the command lines: a new
\* process, with nothing of the last one but the files
NewRun ==
  /\ pc = "done"
  /\ runs < MaxRuns
  /\ runs' = runs + 1
  /\ args' \in ArgChoices
  /\ pc' = "start"
  /\ country_codes' = <<>>
  /\ idx' = 0
  /\ success_count' = 0
  /\ error_count' = 0
  /\ last_key' = ""
  /\ before' = Absent
  /\ outcome' = "none"
  /\ exit_status' = -1
  /\ FetchLocalsReset
  /\ new_holidays' = <<>>
  /\ existing_holidays' = <<>>
  /\ final_holidays' = <<>>
  /\ UNCHANGED files
  /\ ValidatorUnchanged

Next ==
  \/ MainStart
  \/ BeginKey
  \/ RunPageMore
  \/ RunPageLast
  \/ RunFetchRaise
  \/ MainEnd
  \/ NewRun

Spec == Init /\ [][Next]_vars

\* every entry of old is in new at least as often, and new is no shorter
GrowsFrom(old, new) ==
  /\ Len(new) >= Len(old)
  /\ \A i \in 1..Len(old) : Count(new, old[i]) >= Count(old, old[i])

\* C2: in append mode a file that holds a list only grows: no step of a run,
\* whatever the fetch gives, removes or changes one of its entries or makes
\* it shorter.
C2_AppendOnlyGrows ==
  [][~args.recreate =>
       \A k \in Keys :
         files[k].kind = "list" =>
           /\ files'[k].kind = "list"
           /\ GrowsFrom(files[k].data, files'[k].data)]_vars

C2_Witness ==
  /\ runs = 1
  /\ ~args.recreate
  /\ outcome = "saved"
  /\ WellFormed(before)
  /\ ~IsSortedByDate(before.data)
  /\ Len(files[last_key].data) > Len(before.data)
  /\ GrowsFrom(before.data, files[last_key].data)

\* C3: in every mode and for every fetch outcome, a dataset file that exists
\* when the round of its key begins exists when that round is over.
C3_NeverDeleted ==
  outcome \in {"unsupported", "rejected", "fetch_failed", "empty", "saved"} =>
    (Exists(before) => Exists(files[last_key]))

\* C4: when the fetch of a key fails, on any page and in every mode, the
\* key's file holds after the round what it held before it.
C4_FetchFailureLeavesFile ==
  outcome = "fetch_failed" => files[last_key] = before

\* C11: a recreate run that writes a key's file writes the incoming holidays
\* alone, and the entries of the file are in ascending date order whatever
\* the order the source returned them in.
C11_RecreateWritesSorted ==
  (outcome = "saved" /\ args.recreate) =>
    /\ \A i \in 1..Len(new_holidays) :
         Count(files[last_key].data, new_holidays[i]) = Count(new_holidays, new_holidays[i])
    /\ Len(files[last_key].data) = Len(new_holidays)
    /\ IsSortedByDate(files[last_key].data)

\* C12: in append mode, a key whose file is absent or holds anything but a
\* well-formed list of entries (unparseable text, a non-list, a list with an
\* element that is not an entry) is processed as if the file were empty: the
\* round succeeds and writes the merge of nothing with the incoming holidays.
C12_MalformedContentTreatedAsEmpty ==
  (/\ outcome \in {"saved", "merge_failed"}
   /\ ~args.recreate
   /\ ~WellFormed(before))
    => /\ outcome = "saved"
       /\ existing_holidays = <<>>
       /\ files[last_key] = StoredList(merge_holidays(<<>>, new_holidays))

\* the rounds of the for loop so far: one per key, in the order of the list
RoundsSoFar ==
  /\ pc = "loop" =>
       /\ success_count + error_count = idx - 1
       /\ idx > 1 => last_key = country_codes[idx - 1]
  /\ pc = "fetch" =>
       /\ success_count + error_count = idx - 1
       /\ last_key = country_codes[idx]
  /\ pc = "done" =>
       /\ idx = Len(country_codes) + 1
       /\ success_count + error_count = Len(country_codes)
       /\ \A k \in Keys :
            Exists(files[k]) => \E i \in 1..Len(country_codes) : country_codes[i] = k
       /\ \A i, j \in 1..Len(country_codes) :
            country_codes[i] = country_codes[j] => i = j

\* C14 as stated: every key of the directory gets one round whatever the
\* rounds before it ended in, success_count + error_count is the number of
\* keys, and the exit status is 1 exactly when error_count > 0.
C14_ExitFailsIffKeyFailed ==
  /\ RoundsSoFar
  /\ pc = "done" => (exit_status = 1 <=> error_count > 0)

\* C14, amended: the same, but the exit status is 1 exactly when
\* error_count > 0 only if the directory holds a key; with no key in the
\* directory the exit status is 1 and no key has failed.
C14_FailuresDoNotStopTheLoop ==
  /\ RoundsSoFar
  /\ pc = "done" =>
       /\ exit_status \in {0, 1}
       /\ country_codes # <<>> => (exit_status = 1 <=> error_count > 0)
       /\ country_codes = <<>> => (exit_status = 1 /\ error_count = 0)

C14_Witness ==
  /\ pc = "done"
  /\ country_codes = KeyOrder
  /\ outcome = "unsupported"
  /\ error_count = 2
  /\ success_count = 1
  /\ exit_status = 1

\* no two entries of hs have the same date and the same name
UniquePairs(hs) ==
  \A i, j \in 1..Len(hs) : HolidayKey(hs[i]) = HolidayKey(hs[j]) => i = j

\* C19: whatever runs have happened, in append or recreate mode and with any
\* fetch results, no dataset file holds two entries with the same date and
\* the same name.
C19_PairsUnique ==
  \A k \in Keys : WellFormed(files[k]) => UniquePairs(files[k].data)

C19_Witness ==
  /\ runs = 1
  /\ outcome = "saved"
  /\ ~args.recreate
  /\ WellFormed(before)
  /\ \E i \in 1..Len(new_holidays) : Count(before.data, new_holidays[i]) = 1
  /\ Len(files[last_key].data) > Len(before.data)

\* C20: a step changes no file but the file of the key whose round it belongs
\* to, and what it leaves in that file is given by the command line, the
\* file's own content and the key's own fetch result: so the files after a
\* run are the same in whatever order the rounds come.
C20_KeysIndependent ==
  [][\A k \in Keys :
       files'[k] # files[k] =>
         /\ pc \in {"loop", "fetch"}
         /\ idx <= Len(country_codes)
         /\ k = country_codes[idx]
         /\ files'[k] \in {RemoveOnForce(args, files[k]),
                            UpdatedFile(args, files[k], new_holidays')}]_vars

C20_Witness ==
  /\ runs = 0
  /\ success_count = 2
  /\ last_key = "US"
  /\ outcome = "saved"
  /\ files["US"] # before
  /\ files["JP"] # files["US"]
  /\ WellFormed(files["JP"])

\* C10: --recreate without --force on a key whose file exists: the round
\* ends in an error for the key, with no page request, the file as it was,
\* error_count one higher, and the loop goes on to the next key.
C10_RecreateConflictRejected ==
  [][(/\ pc = "loop"
      /\ idx <= Len(country_codes)
      /\ args.recreate
      /\ ~args.force
      /\ Exists(files[country_codes[idx]]))
       => /\ files' = files
          /\ outcome' \in {"rejected", "unsupported"}
          /\ (country_codes[idx] \in CALENDAR_MAPPING => outcome' = "rejected")
          /\ page_no' = 0
          /\ error_count' = error_count + 1
          /\ success_count' = success_count
          /\ idx' = idx + 1
          /\ pc' = "loop"]_vars

C10_Witness ==
  /\ args.recreate
  /\ ~args.force
  /\ outcome = "rejected"
  /\ last_key = "US"
  /\ idx = 3
  /\ error_count = 2
  /\ success_count = 0
  /\ files["JP"] = StoredList(<<FoundationDay, OldYearsEve>>)
  /\ files["US"] = before

(***************************************************************************)
(* SpecSave: save_holidays_to_json step by step, as a reader of the file   *)
(* running beside it sees the file.                                        *)
(***************************************************************************)
\* the file between open(file_path, "w") and the end of the with block: it
\* holds the first entries of the list, or nothing yet
Partial(hs) == [kind |-> "partial", data |-> hs]

\* what the file may hold when save_holidays_to_json is called
SaveFiles ==
  {Absent, Garbage} \cup {StoredList(hs) : hs \in SeqsUpTo(MergeEntries, MaxIncoming)}

SaveInit ==
  /\ files \in [JP : SaveFiles, US : {Absent}, ZZ : {Absent}]
  /\ before = files["JP"]
  /\ last_key = "JP"
  /\ final_holidays \in SeqsUpTo(MergeEntries, MaxExisting)
  /\ args = NoArgs
  /\ pc = "save"
  /\ country_codes = <<>>
  /\ idx = 0
  /\ holidays = <<>>
  /\ page_no = 0
  /\ page_token = NoToken
  /\ events = <<>>
  /\ new_holidays = <<>>
  /\ existing_holidays = <<>>
  /\ success_count = 0
  /\ error_count = 0
  /\ runs = 0
  /\ outcome = "none"
  /\ exit_status = -1
  /\ ValidatorIdle

SaveUnchanged ==
  /\ UNCHANGED <<args, country_codes, idx, holidays, page_no, page_token, events,
                 new_holidays, existing_holidays, final_holidays, success_count,
                 error_count, exit_status, runs, last_key, before, outcome>>
  /\ ValidatorUnchanged

\* open(file_path, "w"): the file is there and is empty
SaveOpen ==
  /\ pc = "save"
  /\ files' = [files EXCEPT ![last_key] = Partial(<<>>)]
  /\ pc' = "open"
  /\ SaveUnchanged

\* json.dump: the buffer is flushed with one more entry of the list in it
SaveFlush ==
  /\ pc = "open"
  /\ Len(files[last_key].data) < Len(final_holidays)
  /\ files' = [files EXCEPT ![last_key] =
                 Partial(SubSeq(final_holidays, 1, Len(files[last_key].data) + 1))]
  /\ pc' = "open"
  /\ SaveUnchanged

\* the end of the with block: the rest is flushed and the file is closed
SaveClose ==
  /\ pc = "open"
  /\ files' = [files EXCEPT ![last_key] = save_holidays_to_json(final_holidays)]
  /\ pc' = "saved"
  /\ SaveUnchanged

SaveNext == SaveOpen \/ SaveFlush \/ SaveClose

SpecSave == SaveInit /\ [][SaveNext]_vars

\* C13: at every point of save_holidays_to_json the file holds either all of
\* what it held before the call or all of the list being saved, never
\* nothing and never a part of the list.
C13_SaveAtomic ==
  files[last_key] \in {before, StoredList(final_holidays)}

(***************************************************************************)
(* SpecFetchLive: fetch_holidays_from_gcal against a source that may go on *)
(* handing out continuation tokens; every request is answered or fails.    *)
(***************************************************************************)
\* the source goes on handing out tokens: the while loop has no page limit;
\* page_no counts the first MaxPages - 1 pages and no further
LivePageAgain ==
  /\ pc = "fetch"
  /\ page_no + 1 = MaxPages
  /\ \E items \in SeqsUpTo(RunItems, MaxRunEvents - Len(events)) :
       /\ holidays' = AppendItems(holidays, items)
       /\ events' = events \o items
  /\ page_token' = NextPageToken(page_token)
  /\ pc' = "fetch"
  /\ UNCHANGED <<args, page_no, new_holidays, existing_holidays, final_holidays>>
  /\ MainUnchanged

LivePageMore == PageMore(RunItems, MaxRunEvents)

LivePageLast == PageLast(RunItems, MaxRunEvents)

LiveNext == LivePageMore \/ LivePageAgain \/ LivePageLast \/ FetchRaise

\* urlopen(req, timeout=30): every request is answered or fails in the end
SpecFetchLive == FetchInit /\ [][LiveNext]_vars /\ WF_vars(LiveNext)

\* C18: the fetch ends: it returns or it raises.
C18_FetchEnds == <>(pc \in {"returned", "raised"})

(***************************************************************************)
(* SpecValidator: test_update_holidays.py. The update script is a process  *)
(* of its own: it may leave any files behind and return any status.        *)
(***************************************************************************)
\* load_json_file: [] for no file, json.load for a file, which raises on
\* text that is no JSON
LoadRaises(f) == f.kind \notin {"absent", "list"}

load_json_file(f) == IF f.kind = "list" THEN f.data ELSE <<>>

\* create_holiday_key: f"{holiday['date']}:{holiday['name']}"
create_holiday_key(h) == h.date \o <<":", h.name>>

\* {create_holiday_key(h) for h in holidays}
HolidayKeys(hs) == {create_holiday_key(hs[i]) : i \in 1..Len(hs)}

\* position of the first entry of hs with the key, 0 for after_match = None
FirstMatch(hs, key) ==
  LET at == {j \in 1..Len(hs) : create_holiday_key(hs[j]) = key}
  IN  IF at = {} THEN 0 ELSE CHOOSE j \in at : \A m \in at : j <= m

\* compare_snapshots: country_code not in after
MissingKeys(b, a) == {k \in DOMAIN b : k \notin DOMAIN a}

\* compare_snapshots: deleted = before_keys - after_keys, for every key seen
DeletedEntries(b, a) ==
  UNION {{<<k, key>> : key \in HolidayKeys(b[k]) \ HolidayKeys(a[k])} :
         k \in DOMAIN b \ MissingKeys(b, a)}

\* compare_snapshots: the before entries whose first match after is not equal
ModifiedEntries(b, a) ==
  UNION {{<<k, i>> : i \in {j \in 1..Len(b[k]) :
            LET m == FirstMatch(a[k], create_holiday_key(b[k][j]))
            IN  m # 0 /\ a[k][m] # b[k][j]}} :
         k \in DOMAIN b \ MissingKeys(b, a)}

\* compare_snapshots: new_entries = after_keys - before_keys
NewEntries(b, a) ==
  UNION {{<<k, key>> : key \in HolidayKeys(a[k]) \ HolidayKeys(b[k])} :
         k \in DOMAIN b \ MissingKeys(b, a)}

\* compare_snapshots with deleted entries counted and not reported
compare_snapshots_lenient(b, a) ==
  [passed |-> MissingKeys(b, a) = {} /\ ModifiedEntries(b, a) = {},
   missing |-> MissingKeys(b, a),
   deleted |-> {},
   modified |-> ModifiedEntries(b, a),
   new |-> NewEntries(b, a)]

\* compare_snapshots: the errors as sets, one element for one error message
compare_snapshots(b, a) ==
  [passed |-> /\ MissingKeys(b, a) = {}
              /\ DeletedEntries(b, a) = {}
              /\ ModifiedEntries(b, a) = {},
   missing |-> MissingKeys(b, a),
   deleted |-> DeletedEntries(b, a),
   modified |-> ModifiedEntries(b, a),
   new |-> NewEntries(b, a)]

\* an entry of 2025-01-01 with a field more than date and name
NewYearNoted ==
  [date |-> <<2025, 101, MidnightSuffix>>, name |-> "New Year", note |-> "bank"]

\* what the directory may hold when the validator starts
ValidatorFiles ==
  [JP : {Absent, Garbage, StoredList(<<>>), StoredList(<<NewYear>>),
         StoredList(<<NewYear, FoundationDay>>), StoredList(<<NewYear, NewYear>>)},
   US : {Absent, StoredList(<<>>), StoredList(<<NewYear>>)},
   ZZ : {Absent}]

\* what the update script may leave in the directory
PipelineFiles ==
  [JP : {Absent, Garbage, StoredList(<<>>), StoredList(<<NewYear>>),
         StoredList(<<FoundationDay>>), StoredList(<<NewYear, FoundationDay>>),
         StoredList(<<NewYearNoted>>), StoredList(<<NewYearNoted, NewYear>>),
         StoredList(<<OldYearsEve, NewYear, FoundationDay>>)},
   US : {Absent, StoredList(<<>>), StoredList(<<NewYear>>),
         StoredList(<<NewYear, FoundationDay>>)},
   ZZ : {Absent, StoredList(<<>>)}]

ValidatorInit ==
  /\ files \in ValidatorFiles
  /\ args = NoArgs
  /\ pc = "idle"
  /\ country_codes = <<>>
  /\ idx = 0
  /\ holidays = <<>>
  /\ page_no = 0
  /\ page_token = NoToken
  /\ events = <<>>
  /\ new_holidays = <<>>
  /\ existing_holidays = <<>>
  /\ final_holidays = <<>>
  /\ success_count = 0
  /\ error_count = 0
  /\ runs = 0
  /\ last_key = ""
  /\ before = Absent
  /\ outcome = "none"
  /\ exit_status = -1
  /\ ValidatorIdle

\* the variables of the update script, which the validator does not have
PipelineLocalsUnchanged ==
  UNCHANGED <<args, holidays, page_no, page_token, events, new_holidays,
              existing_holidays, final_holidays, success_count, error_count,
              runs, last_key, before>>

\* d[k] = v on a dict
Put(d, k, v) == [x \in DOMAIN d \cup {k} |-> IF x = k THEN v ELSE d[x]]

\* backup_json_files: os.listdir, before the for loop
BackupStart ==
  /\ pc = "idle"
  /\ country_codes' = get_country_codes_from_json_dir(files)
  /\ idx' = 1
  /\ pc' = IF country_codes' = <<>> THEN "pipeline" ELSE "backup"
  /\ UNCHANGED <<files, outcome, exit_status>>
  /\ ValidatorUnchanged
  /\ PipelineLocalsUnchanged

\* backup_json_files: one round of the for loop: copy the file, load it
BackupKey ==
  /\ pc = "backup"
  /\ idx <= Len(country_codes)
  /\ LET k == country_codes[idx]
     IN  /\ backup_dir' = Put(backup_dir, k, files[k])
         /\ IF LoadRaises(files[k])
            THEN /\ pc' = "crashed"
                 /\ exit_status' = 1
                 /\ UNCHANGED <<before_snapshot, idx>>
            ELSE /\ before_snapshot' = Put(before_snapshot, k, load_json_file(files[k]))
                 /\ idx' = idx + 1
                 /\ pc' = IF idx' > Len(country_codes) THEN "pipeline" ELSE "backup"
                 /\ UNCHANGED exit_status
  /\ UNCHANGED <<files, country_codes, outcome, after_snapshot, result>>
  /\ PipelineLocalsUnchanged

\* main with the status of the update script not looked at
RunUpdateScriptUnchecked ==
  /\ pc = "pipeline"
  /\ files' \in PipelineFiles
  /\ outcome' \in {"ok", "failed"}
  /\ pc' = "snapshot_after"
  /\ UNCHANGED <<country_codes, idx, exit_status>>
  /\ ValidatorUnchanged
  /\ PipelineLocalsUnchanged

\* run_update_script and the test on what it returns: the script runs to its
\* end, leaves the directory as it likes and returns a status
RunUpdateScript ==
  /\ pc = "pipeline"
  /\ files' \in PipelineFiles
  /\ outcome' \in {"ok", "failed"}
  /\ IF outcome' = "ok"
     THEN pc' = "snapshot_after" /\ UNCHANGED exit_status
     ELSE pc' = "pipeline_failed" /\ exit_status' = 1
  /\ UNCHANGED <<country_codes, idx>>
  /\ ValidatorUnchanged
  /\ PipelineLocalsUnchanged

\* main: after_snapshot[country_code] = load_json_file(file_path) for every
\* key of before_snapshot
SnapshotAfter ==
  /\ pc = "snapshot_after"
  /\ IF \E k \in DOMAIN before_snapshot : LoadRaises(files[k])
     THEN /\ pc' = "crashed"
          /\ exit_status' = 1
          /\ UNCHANGED after_snapshot
     ELSE /\ after_snapshot' = [k \in DOMAIN before_snapshot |-> load_json_file(files[k])]
          /\ pc' = "compare"
          /\ UNCHANGED exit_status
  /\ UNCHANGED <<files, country_codes, idx, outcome, backup_dir, before_snapshot, result>>
  /\ PipelineLocalsUnchanged

\* main: result = compare_snapshots(...), print_results, sys.exit
Compare ==
  /\ pc = "compare"
  /\ result' = compare_snapshots(before_snapshot, after_snapshot)
  /\ pc' = IF result'.passed THEN "passed" ELSE "failed"
  /\ exit_status' = IF result'.passed THEN 0 ELSE 1
  /\ UNCHANGED <<files, country_codes, idx, outcome, backup_dir, before_snapshot,
                 after_snapshot>>
  /\ PipelineLocalsUnchanged

ValidatorNext ==
  \/ BackupStart
  \/ BackupKey
  \/ RunUpdateScript
  \/ SnapshotAfter
  \/ Compare

SpecValidator == ValidatorInit /\ [][ValidatorNext]_vars

\* C15: when the comparison is over and the file of a key of the before
\* snapshot is not in the directory, the key is among the missing-dataset
\* errors and the result is FAILED, whatever the before snapshot held.
C15_MissingFileReported ==
  pc \in {"passed", "failed"} =>
    \A k \in DOMAIN before_snapshot :
      ~Exists(files[k]) => (k \in result.missing /\ pc = "failed")

\* hs without its p-th entry
RemoveAt(hs, p) == SubSeq(hs, 1, p - 1) \o SubSeq(hs, p + 1, Len(hs))

\* every deleted-entry error is for a key of a before entry that no after
\* entry has, and the other way round
DeletedReported ==
  \A k \in DOMAIN before_snapshot :
    \A i \in 1..Len(before_snapshot[k]) :
      <<k, create_holiday_key(before_snapshot[k][i])>> \in result.deleted
        <=> FirstMatch(after_snapshot[k], create_holiday_key(before_snapshot[k][i])) = 0

\* C16 as stated: passed iff every key of the before snapshot is in the
\* after snapshot and every before entry has an equal after entry; and when
\* the after list of a key is the before list less one entry, there is one
\* deleted-entry error for the key and the result is FAILED.
C16_PassedIffEntriesKept ==
  pc \in {"passed", "failed"} =>
    /\ result.passed <=>
         \A k \in DOMAIN before_snapshot :
           /\ k \in DOMAIN after_snapshot
           /\ \A i \in 1..Len(before_snapshot[k]) :
                \E j \in 1..Len(after_snapshot[k]) :
                  after_snapshot[k][j] = before_snapshot[k][i]
    /\ DeletedReported
    /\ \A k \in DOMAIN before_snapshot : \A p \in 1..Len(before_snapshot[k]) :
         after_snapshot[k] = RemoveAt(before_snapshot[k], p) =>
           /\ ~result.passed
           /\ {e \in result.deleted : e[1] = k}
                = {<<k, create_holiday_key(before_snapshot[k][p])>>}

\* C16, amended: passed iff every key of the before snapshot is in the after
\* snapshot and, for every before entry, the first after entry with its
\* (date, name) is there and is equal to it; and when the after list of a
\* key is the before list less one entry whose (date, name) no other before
\* entry has, there is one deleted-entry error for the key, and the result
\* is FAILED. Entries that are only in the after list are counted as new and
\* have no part in the result.
C16_PassedIffFirstMatchesEqual ==
  pc \in {"passed", "failed"} =>
    /\ result.passed <=>
         \A k \in DOMAIN before_snapshot :
           /\ k \in DOMAIN after_snapshot
           /\ \A i \in 1..Len(before_snapshot[k]) :
                LET m == FirstMatch(after_snapshot[k],
                                    create_holiday_key(before_snapshot[k][i]))
                IN  m # 0 /\ after_snapshot[k][m] = before_snapshot[k][i]
    /\ DeletedReported
    /\ \A k \in DOMAIN before_snapshot : \A p \in 1..Len(before_snapshot[k]) :
         (/\ after_snapshot[k] = RemoveAt(before_snapshot[k], p)
          /\ \A q \in 1..Len(before_snapshot[k]) :
               create_holiday_key(before_snapshot[k][q])
                 = create_holiday_key(before_snapshot[k][p]) => q = p)
           => /\ ~result.passed
              /\ {e \in result.deleted : e[1] = k}
                   = {<<k, create_holiday_key(before_snapshot[k][p])>>}
    /\ \A k \in DOMAIN before_snapshot :
         {e \in result.new : e[1] = k}
           = {<<k, key>> : key \in HolidayKeys(after_snapshot[k])
                                    \ HolidayKeys(before_snapshot[k])}

C16_Witness ==
  /\ pc = "failed"
  /\ DOMAIN before_snapshot = {"JP", "US"}
  /\ before_snapshot["JP"] = <<NewYear, FoundationDay>>
  /\ after_snapshot["JP"] = <<NewYear>>
  /\ before_snapshot["US"] = <<NewYear>>
  /\ after_snapshot["US"] = <<NewYear, FoundationDay>>
  /\ result.deleted = {<<"JP", create_holiday_key(FoundationDay)>>}
  /\ result.new = {<<"US", create_holiday_key(FoundationDay)>>}
  /\ result.modified = {}

\* C17: the update script runs only when every file of the directory has
\* been copied and loaded; the after snapshot is taken only after the script
\* has returned success, for the keys of the before snapshot; the
\* comparison runs only after that; and when the script returns a failure
\* the validator ends there with status 1, no after snapshot and no result.
C17_PhasesInOrder ==
  [][/\ pc # "pipeline_failed"
     /\ pc = "pipeline" =>
          /\ DOMAIN before_snapshot = {k \in Keys : Exists(files[k])}
          /\ \A k \in DOMAIN before_snapshot :
               /\ backup_dir[k] = files[k]
               /\ before_snapshot[k] = load_json_file(files[k])
     /\ files' # files => pc = "pipeline"
     /\ after_snapshot' # after_snapshot => (pc = "snapshot_after" /\ outcome = "ok")
     /\ pc' = "compare" => DOMAIN after_snapshot' = DOMAIN before_snapshot
     /\ result' # result => (pc = "compare" /\ outcome = "ok")
     /\ (pc = "pipeline" /\ outcome' = "failed") =>
          /\ pc' = "pipeline_failed"
          /\ exit_status' = 1
          /\ after_snapshot' = after_snapshot
          /\ result' = NoResult]_vars

C17_Witness ==
  /\ pc = "pipeline_failed"
  /\ outcome = "failed"
  /\ exit_status = 1
  /\ DOMAIN before_snapshot = {"JP", "US"}
  /\ files["JP"] # backup_dir["JP"]
  /\ DOMAIN after_snapshot = {}
  /\ result = NoResult

====
